---- MODULE Spec2Model ----
(***************************************************************************)
(* fetch-ebird.js: the eBird life-list import.  parseEbirdDate and         *)
(* parseCSV are pure functions over JavaScript strings; fetchEbirdLifeList *)
(* is one linear run that downloads the CSV, parses it and rewrites        *)
(* data.json.  A JavaScript string is modelled as the sequence of its      *)
(* characters (one-character TLA+ strings), so that split, trim, padStart  *)
(* and the quote-aware tokenizer are computed character by character.      *)
(***************************************************************************)
EXTENDS Integers, Sequences, FiniteSets, TLC

VARIABLES
    dpc, dateStr, dateRes,                       \* parseEbirdDate: its argument and result
    tpc, line, j, columns, current, inQuotes,    \* the tokenizer loop of parseCSV
    cpc, rows, csvContent, lines, i, observations, result
                                                 \* parseCSV: the rows its text was
                                                 \* written from, its argument, locals
                                                 \* and return value

dateVars == <<dpc, dateStr, dateRes>>
tokVars == <<tpc, line, j, columns, current, inQuotes>>
csvVars == <<cpc, rows, csvContent, lines, i, observations, result>>

VARIABLES
    pc,               \* where fetchEbirdLifeList (or the module's top level) stands
    credentials,      \* whether EBIRD_USERNAME and EBIRD_PASSWORD are both set
    clock,            \* the time new Date() reads
    dataJson,         \* the file data.json on disk
    tempFile,         \* the file temp_lifelist.csv on disk
    csvText,          \* csvContent, as fetchEbirdLifeList read it
    parsed,           \* observations, as parseCSV returned them
    existingProfile,  \* what getExistingProfile returned
    evaluate,         \* the promise of page.evaluate, which nothing awaits
    thrown,           \* whether an error is on its way out of the function
    exitCode,         \* the exit status of the process; Running until it ends
    failed,           \* the step that failed, or "none"
    attempts,         \* how many times each step has been started
    writes,           \* how many times data.json has been written
    dataBefore        \* data.json as the run found it

runVars ==
    <<pc, credentials, clock, dataJson, tempFile, csvText, parsed,
      existingProfile, evaluate, thrown, exitCode, failed, attempts, writes,
      dataBefore>>

vars == <<dateVars, tokVars, csvVars, runVars>>

(***************************************************************************)
(* JavaScript string primitives used by the script.                        *)
(***************************************************************************)
\* The white space String.prototype.trim strips, among the characters the inputs use.
WhiteSpace == {" ", "\t", "\r", "\n"}

RECURSIVE TrimStart(_)
TrimStart(s) ==
    IF s # <<>> /\ Head(s) \in WhiteSpace THEN TrimStart(Tail(s)) ELSE s

RECURSIVE TrimEnd(_)
TrimEnd(s) ==
    IF s # <<>> /\ s[Len(s)] \in WhiteSpace
    THEN TrimEnd(SubSeq(s, 1, Len(s) - 1))
    ELSE s

\* str.trim()
Trim(s) == TrimEnd(TrimStart(s))

\* str.split(sep) for a one-character separator: the pieces between the
\* occurrences of sep, so that "" splits into [""].
Split(s, sep) ==
    LET at == {p \in 1..Len(s) : s[p] = sep}
        nth(k) == IF k = 0 THEN 0
                  ELSE IF k > Cardinality(at) THEN Len(s) + 1
                  ELSE CHOOSE p \in at : Cardinality({q \in at : q < p}) = k - 1
    IN  [k \in 1..(Cardinality(at) + 1) |-> SubSeq(s, nth(k - 1) + 1, nth(k) - 1)]

RECURSIVE PadStart(_, _, _)
\* str.padStart(n, c)
PadStart(s, n, c) == IF Len(s) >= n THEN s ELSE PadStart(<<c>> \o s, n, c)

(***************************************************************************)
(* parseEbirdDate                                                          *)
(***************************************************************************)
MonthNames ==
    << <<"J", "a", "n">>, <<"F", "e", "b">>, <<"M", "a", "r">>, <<"A", "p", "r">>, <<"M", "a", "y">>, <<"J", "u", "n">>,
       <<"J", "u", "l">>, <<"A", "u", "g">>, <<"S", "e", "p">>, <<"O", "c", "t">>, <<"N", "o", "v">>, <<"D", "e", "c">> >>

MonthCodes ==
    << <<"0", "1">>, <<"0", "2">>, <<"0", "3">>, <<"0", "4">>, <<"0", "5">>, <<"0", "6">>,
       <<"0", "7">>, <<"0", "8">>, <<"0", "9">>, <<"1", "0">>, <<"1", "1">>, <<"1", "2">> >>

\* The properties every object literal inherits from Object.prototype: a lookup
\* months[key] finds them when key is not an own property.
ObjectPrototypeKeys ==
    { <<"c", "o", "n", "s", "t", "r", "u", "c", "t", "o", "r">>, <<"t", "o", "S", "t", "r", "i", "n", "g">>, <<"v", "a", "l", "u", "e", "O", "f">>, <<"h", "a", "s", "O", "w", "n", "P", "r", "o", "p", "e", "r", "t", "y">>,
      <<"i", "s", "P", "r", "o", "t", "o", "t", "y", "p", "e", "O", "f">>, <<"p", "r", "o", "p", "e", "r", "t", "y", "I", "s", "E", "n", "u", "m", "e", "r", "a", "b", "l", "e">>, <<"t", "o", "L", "o", "c", "a", "l", "e", "S", "t", "r", "i", "n", "g">>,
      <<"_", "_", "p", "r", "o", "t", "o", "_", "_">> }

\* What a template literal prints for the inherited value found under key.
InheritedString(key) ==
    IF key = <<"_", "_", "p", "r", "o", "t", "o", "_", "_">> THEN <<"[", "o", "b", "j", "e", "c", "t", " ", "O", "b", "j", "e", "c", "t", "]">>
    ELSE <<"f", "u", "n", "c", "t", "i", "o", "n", " ">>
         \o (IF key = <<"c", "o", "n", "s", "t", "r", "u", "c", "t", "o", "r">> THEN <<"O", "b", "j", "e", "c", "t">> ELSE key)
         \o <<"(", ")", " ", "{", " ", "[", "n", "a", "t", "i", "v", "e", " ", "c", "o", "d", "e", "]", " ", "}">>

Undefined == [defined |-> FALSE, str |-> <<>>]

\* months[key]: the own property, else the inherited one, else undefined.
MonthsGet(key) ==
    IF \E m \in 1..12 : MonthNames[m] = key
    THEN [defined |-> TRUE,
          str |-> MonthCodes[CHOOSE m \in 1..12 : MonthNames[m] = key]]
    ELSE IF key \in ObjectPrototypeKeys
    THEN [defined |-> TRUE, str |-> InheritedString(key)]
    ELSE Undefined

\* !month is false for a non-empty string, a function and an object.
Truthy(v) == v.defined

Null == [null |-> TRUE, str |-> <<>>]
Str(s) == [null |-> FALSE, str |-> s]

parseEbirdDate(s) ==
    LET parts == Split(Trim(s), " ")
    IN  IF Len(parts) # 3 THEN Null
        ELSE LET day == PadStart(parts[1], 2, "0")
                 month == MonthsGet(parts[2])
                 year == parts[3]
             IN  IF ~Truthy(month) THEN Null
                 ELSE Str(year \o <<"-">> \o month.str \o <<"-">> \o day)

(***************************************************************************)
(* The row tokenizer: the inner loop of parseCSV over one line.            *)
(***************************************************************************)
\* A tokenizer that forgets the quote mode: every comma separates.
ScanCharEveryComma(st, char) ==
    IF char = "\""
    THEN [st EXCEPT !.inQuotes = ~st.inQuotes]
    ELSE IF char = ","
    THEN [st EXCEPT !.columns = Append(st.columns, Trim(st.current)),
                    !.current = <<>>]
    ELSE [st EXCEPT !.current = Append(st.current, char)]

\* One iteration of the loop over line[j]: st is <<columns, current, inQuotes>>.
ScanChar(st, char) ==
    IF char = "\""
    THEN [st EXCEPT !.inQuotes = ~st.inQuotes]
    ELSE IF char = "," /\ ~st.inQuotes
    THEN [st EXCEPT !.columns = Append(st.columns, Trim(st.current)),
                    !.current = <<>>]
    ELSE [st EXCEPT !.current = Append(st.current, char)]

ScanStart == [columns |-> <<>>, current |-> <<>>, inQuotes |-> FALSE]

RECURSIVE ScanRange(_, _, _, _)
\* The loop's state after the characters s[lo] .. s[hi], in order, from state
\* st.  The range is halved, and the state after the first half is evaluated
\* before the second half starts, only to keep the evaluation shallow.
ScanRange(st, s, lo, hi) ==
    IF lo > hi THEN st
    ELSE IF lo = hi THEN ScanChar(st, s[lo])
    ELSE LET mid == (lo + hi) \div 2
             left == ScanRange(st, s, lo, mid)
         IN  IF left.inQuotes \in BOOLEAN
             THEN ScanRange(left, s, mid + 1, hi)
             ELSE left

\* The columns of one line: the loop, then the push of the last field.
Tokenize(s) ==
    LET st == ScanRange(ScanStart, s, 1, Len(s))
    IN  Append(st.columns, Trim(st.current))

TokIdle ==
    /\ tpc = "idle" /\ line = <<>> /\ j = 0
    /\ columns = <<>> /\ current = <<>> /\ inQuotes = FALSE

(***************************************************************************)
(* parseCSV: the loop over the lines, and the final sort.                  *)
(***************************************************************************)
\* columns[6].replace(/"/g, '')
StripQuotes(s) == SelectSeq(s, LAMBDA c : c # "\"")

\* The loop body with the column test off by one: a row of exactly nine
\* columns is dropped.
ParseLineTenColumns(obs, raw) ==
    LET ln == Trim(raw)
    IN  IF ln = <<>> THEN obs
        ELSE LET cols == Tokenize(ln)
             IN  IF Len(cols) > 9
                 THEN LET date == parseEbirdDate(cols[9])
                      IN  IF ~date.null /\ date.str # <<>>
                          THEN Append(obs, [date |-> date.str,
                                            sciName |-> cols[5],
                                            common |-> cols[4],
                                            location |-> StripQuotes(cols[7]),
                                            region |-> cols[8]])
                          ELSE obs
                 ELSE obs

\* The body of the loop for one element of lines: the observations after it.
ParseLine(obs, raw) ==
    LET ln == Trim(raw)
    IN  IF ln = <<>> THEN obs
        ELSE LET cols == Tokenize(ln)
             IN  IF Len(cols) >= 9
                 THEN LET date == parseEbirdDate(cols[9])
                      IN  IF ~date.null /\ date.str # <<>>
                          THEN Append(obs, [date |-> date.str,
                                            sciName |-> cols[5],
                                            common |-> cols[4],
                                            location |-> StripQuotes(cols[7]),
                                            region |-> cols[8]])
                          ELSE obs
                 ELSE obs

Digits == <<"0", "1", "2", "3", "4", "5", "6", "7", "8", "9">>
IsDigit(c) == \E d \in 1..10 : Digits[d] = c
DigitVal(c) == (CHOOSE d \in 1..10 : Digits[d] = c) - 1
AllDigits(s) == \A k \in 1..Len(s) : IsDigit(s[k])

RECURSIVE ToNumber(_)
ToNumber(s) ==
    IF s = <<>> THEN 0
    ELSE ToNumber(SubSeq(s, 1, Len(s) - 1)) * 10 + DigitVal(s[Len(s)])

\* The day number of a calendar date, counted from 1970-01-01.
DaysFromCivil(y, m, d) ==
    LET yy == IF m <= 2 THEN y - 1 ELSE y
        era == yy \div 400
        yoe == yy - era * 400
        mp == IF m > 2 THEN m - 3 ELSE m + 9
        doy == (153 * mp + 2) \div 5 + d - 1
        doe == yoe * 365 + yoe \div 4 - yoe \div 100 + doy
    IN  era * 146097 + doe - 719468

NaN == [nan |-> TRUE, t |-> 0]
Num(n) == [nan |-> FALSE, t |-> n]

\* new Date(str) as a time value, in days.  Node's Date.parse reads a
\* YYYY-MM-DD string with a month 01 .. 12 and a day 01 .. 31 as that day at
\* 00:00 UTC, a day past the end of its month counting on into the next one
\* (2024-02-31 is 2024-03-02).  The other strings parseEbirdDate can build are
\* no date to it: NaN.
DateParse(s) ==
    IF /\ Len(s) = 10
       /\ s[5] = "-" /\ s[8] = "-"
       /\ AllDigits(SubSeq(s, 1, 4))
       /\ AllDigits(SubSeq(s, 6, 7))
       /\ AllDigits(SubSeq(s, 9, 10))
    THEN LET y == ToNumber(SubSeq(s, 1, 4))
             m == ToNumber(SubSeq(s, 6, 7))
             d == ToNumber(SubSeq(s, 9, 10))
         IN  IF m \in 1..12 /\ d \in 1..31
             THEN Num(DaysFromCivil(y, m, 1) + d - 1)
             ELSE NaN
    ELSE NaN

\* (a, b) => new Date(a.date) - new Date(b.date)
Comparator(a, b) ==
    LET x == DateParse(a.date)
        y == DateParse(b.date)
    IN  IF x.nan \/ y.nan THEN NaN ELSE Num(x.t - y.t)

\* Array.prototype.sort reads a NaN from the comparator as +0.
SortCompare(a, b) ==
    LET v == Comparator(a, b) IN IF v.nan THEN 0 ELSE v.t

Elements(s) == {s[k] : k \in 1..Len(s)}

\* Whether the comparator is a consistent comparator for the elements of s.
Consistent(s) ==
    \A a, b, c \in Elements(s) :
        /\ (SortCompare(a, b) = 0 /\ SortCompare(b, c) = 0) => SortCompare(a, c) = 0
        /\ (SortCompare(a, b) < 0 /\ SortCompare(b, c) < 0) => SortCompare(a, c) < 0
        /\ (SortCompare(a, b) > 0 /\ SortCompare(b, c) > 0) => SortCompare(a, c) > 0

RECURSIVE InsertSorted(_, _)
InsertSorted(s, x) ==
    IF s = <<>> THEN <<x>>
    ELSE IF SortCompare(x, Head(s)) < 0 THEN <<x>> \o s
    ELSE <<Head(s)>> \o InsertSorted(Tail(s), x)

RECURSIVE StableSort(_)
StableSort(s) ==
    IF s = <<>> THEN <<>>
    ELSE InsertSorted(StableSort(SubSeq(s, 1, Len(s) - 1)), s[Len(s)])

Reorderings(s) ==
    LET n == Len(s)
        perms == {f \in [1..n -> 1..n] : \A x, y \in 1..n : f[x] = f[y] => x = y}
    IN  {[k \in 1..n |-> s[f[k]]] : f \in perms}

\* What observations.sort(comparator) may return.  Under a consistent
\* comparator the sort is stable and its result unique; under an inconsistent
\* one the order is implementation-defined.
SortOutcomes(s) ==
    IF Consistent(s) THEN {StableSort(s)} ELSE Reorderings(s)

RECURSIVE ParseLines(_, _, _)
ParseLines(obs, lns, k) ==
    IF k >= Len(lns) THEN obs
    ELSE ParseLines(ParseLine(obs, lns[k + 1]), lns, k + 1)

\* What parseCSV(text) may return.
ParseCSVOutcomes(text) ==
    SortOutcomes(ParseLines(<<>>, Split(text, "\n"), 1))

CsvIdle ==
    /\ cpc = "idle" /\ rows = <<>> /\ csvContent = <<>> /\ lines = <<>>
    /\ i = 0 /\ observations = <<>> /\ result = <<>>

(***************************************************************************)
(* data.json: JSON values, getExistingProfile and the export written.      *)
(***************************************************************************)
\* A JSON value: its type and what it holds.  A string holds its characters,
\* an array a sequence of values, an object its values by key.
JNull == [t |-> "null", v |-> FALSE]
JBool(b) == [t |-> "boolean", v |-> b]
JNum(n) == [t |-> "number", v |-> n]
JStr(s) == [t |-> "string", v |-> s]
JArr(a) == [t |-> "array", v |-> a]
JObj(o) == [t |-> "object", v |-> o]
JUndefined == [t |-> "undefined", v |-> FALSE]

EmptyObject == JObj(<<>>)

\* A file on disk: absent, unreadable, holding text that is no JSON, or
\* holding the text of a JSON value.
Absent == [kind |-> "absent", value |-> JNull]
Unreadable == [kind |-> "unreadable", value |-> JNull]
NotJson == [kind |-> "notJson", value |-> JNull]
JsonFile(value) == [kind |-> "json", value |-> value]

\* value.profile: a property read throws on null, and finds nothing on a
\* string, a number, a boolean, an array, or an object without the key.
HasProfile(value) == value.t = "object" /\ "profile" \in DOMAIN value.v

\* What || takes for false.
Falsy(x) ==
    \/ x.t \in {"undefined", "null"}
    \/ x.t = "boolean" /\ ~x.v
    \/ x.t = "number" /\ x.v = 0
    \/ x.t = "string" /\ x.v = <<>>

\* getExistingProfile always returning {}.
getExistingProfileForgets(file) == EmptyObject

\* try { return JSON.parse(readFileSync(dataPath)).profile || {} } catch { return {} }
getExistingProfile(file) ==
    IF file.kind # "json" \/ file.value.t = "null" THEN EmptyObject
    ELSE LET profile == IF HasProfile(file.value)
                        THEN file.value.v["profile"]
                        ELSE JUndefined
         IN  IF Falsy(profile) THEN EmptyObject ELSE profile

\* The key of index k (from 0) of an array or a string.
IndexKey(k) == Digits[k + 1]

\* The own enumerable properties { ...x } copies: the entries of an object,
\* the elements of an array and the characters of a string under their
\* indices, nothing of a number or a boolean.
Spread(x) ==
    IF x.t = "object" THEN x.v
    ELSE IF x.t = "array"
    THEN [key \in {IndexKey(k - 1) : k \in 1..Len(x.v)} |->
            x.v[CHOOSE k \in 1..Len(x.v) : IndexKey(k - 1) = key]]
    ELSE IF x.t = "string"
    THEN [key \in {IndexKey(k - 1) : k \in 1..Len(x.v)} |->
            JStr(<<x.v[CHOOSE k \in 1..Len(x.v) : IndexKey(k - 1) = key]>>)]
    ELSE <<>>

\* new Date().toISOString() at clock time c, the clock counting seconds.
ToISOString(c) ==
    <<"2", "0", "2", "4", "-", "0", "6", "-", "0", "1", "T", "0", "7", ":", "0", "0", ":", "0">> \o <<Digits[c + 1]>> \o <<".", "0", "0", "0", "Z">>

\* { ...existingProfile, lastSync: new Date().toISOString() }
MergedProfile(existing, now) ==
    LET old == Spread(existing)
    IN  [key \in DOMAIN old \cup {"lastSync"} |->
            IF key = "lastSync" THEN JStr(ToISOString(now)) ELSE old[key]]

\* The object written to data.json.
Export(existing, obs, now, later) ==
    JObj([profile |-> JObj(MergedProfile(existing, now)),
          observations |-> JArr(obs),
          exportedAt |-> JStr(ToISOString(later))])

Running == -1

StepNames ==
    {"goto", "waitForSelector", "fillUserName", "fillPassword", "click",
     "waitForURL", "download", "saveAs", "readTemp", "parse", "unlink",
     "getExistingProfile", "write", "screenshot", "close", "launch"}

RunIdle ==
    /\ pc = "idle" /\ credentials = FALSE /\ clock = 0
    /\ dataJson = Absent /\ tempFile = [kind |-> "absent", text |-> <<>>] /\ csvText = <<>> /\ parsed = <<>>
    /\ existingProfile = JUndefined /\ evaluate = "none" /\ thrown = FALSE
    /\ exitCode = Running /\ failed = "none"
    /\ attempts = [s \in StepNames |-> 0] /\ writes = 0
    /\ dataBefore = Absent

(***************************************************************************)
(* SpecDate: parseEbirdDate applied to date strings drawn from tokens.     *)
(***************************************************************************)
DayTokens == { <<"5">>, <<"1", "5">>, <<"0", "5">>, <<"a", "b">>, <<>> }
MonthTokens ==
    { MonthNames[m] : m \in 1..12 }
    \cup { <<"F", "o", "o">>, <<"j", "a", "n">>, <<"J", "A", "N">>, <<"J", "a", "n", "u", "a", "r", "y">>, <<>>,
           <<"c", "o", "n", "s", "t", "r", "u", "c", "t", "o", "r">>, <<"t", "o", "S", "t", "r", "i", "n", "g">>, <<"_", "_", "p", "r", "o", "t", "o", "_", "_">> }
YearTokens == { <<"2", "0", "2", "4">>, <<"2", "0", "2", "3">>, <<"c", "d">> }
Paddings == { <<>>, <<" ">> }

DateInputs ==
    { pre \o d \o <<" ">> \o m \o <<" ">> \o y \o post :
        pre \in Paddings, post \in Paddings,
        d \in DayTokens, m \in MonthTokens, y \in YearTokens }
    \cup YearTokens
    \cup { d \o <<" ">> \o m : d \in DayTokens, m \in MonthTokens }
    \cup { d \o <<" ">> \o m \o <<" ">> \o y \o <<" ">> \o y :
             d \in {<<"5">>}, m \in MonthTokens, y \in YearTokens }
    \cup { d \o <<" ", " ">> \o m \o <<" ">> \o y :
             d \in {<<"5">>}, m \in MonthTokens, y \in YearTokens }

NotCalled == [null |-> TRUE, str |-> <<"?">>]

DateIdle == dpc = "idle" /\ dateStr = <<>> /\ dateRes = NotCalled

DateInit ==
    /\ dpc = "input"
    /\ dateStr \in DateInputs
    /\ dateRes = NotCalled
    /\ TokIdle /\ CsvIdle /\ RunIdle

CallParseEbirdDate ==
    /\ dpc = "input"
    /\ dateRes' = parseEbirdDate(dateStr)
    /\ dpc' = "done"
    /\ UNCHANGED <<dateStr, tokVars, csvVars, runVars>>

DateNext == CallParseEbirdDate

SpecDate == DateInit /\ [][DateNext]_vars

(***************************************************************************)
(* SpecTok: the tokenizer loop run character by character over every line  *)
(* of at most MaxLineLen characters, and over the documented example.      *)
(***************************************************************************)
MaxLineLen == 5
TokAlphabet == {"A", ",", "\"", " "}

RECURSIVE SeqsUpTo(_, _)
SeqsUpTo(S, n) ==
    IF n = 0 THEN {<<>>}
    ELSE LET shorter == SeqsUpTo(S, n - 1)
         IN  shorter \cup {Append(s, c) : s \in shorter, c \in S}

ExampleLine == <<"A", ",", "\"", "B", ",", " ", "C", "\"", ",", "D">>

TokLines == SeqsUpTo(TokAlphabet, MaxLineLen) \cup {ExampleLine}

TokInit ==
    /\ tpc = "scan"
    /\ line \in TokLines
    /\ j = 0
    /\ columns = <<>> /\ current = <<>> /\ inQuotes = FALSE
    /\ DateIdle /\ CsvIdle /\ RunIdle

\* for (let j = 0; j < line.length; j++) { ... }
ScanStep ==
    /\ tpc = "scan"
    /\ j < Len(line)
    /\ LET st == ScanChar([columns |-> columns, current |-> current,
                           inQuotes |-> inQuotes], line[j + 1])
       IN  /\ columns' = st.columns
           /\ current' = st.current
           /\ inQuotes' = st.inQuotes
    /\ j' = j + 1
    /\ UNCHANGED <<tpc, line, dateVars, csvVars, runVars>>

\* columns.push(current.trim()) after the loop
PushLast ==
    /\ tpc = "scan"
    /\ j = Len(line)
    /\ columns' = Append(columns, Trim(current))
    /\ tpc' = "done"
    /\ UNCHANGED <<line, j, current, inQuotes, dateVars, csvVars, runVars>>

TokNext == ScanStep \/ PushLast

SpecTok == TokInit /\ [][TokNext]_vars

(***************************************************************************)
(* SpecCSV: parseCSV applied to the text of a header line and at most      *)
(* MaxRows rows.  A row is written from its cells; a cell holding a comma  *)
(* is quoted.                                                              *)
(***************************************************************************)
MaxRows == 3

Header ==
    <<"R", "o", "w", " ", "#", ",", "S", "p", "e", "c", "i", "e", "s", " ", "C", "o", "d", "e", ",", "T", "a", "x", "o", "n", "o", "m", "i", "c", " ", "O", "r", "d", "e", "r", ",", "C", "o", "m", "m", "o", "n", " ", "N", "a", "m", "e", ",", "S", "c", "i", "e", "n", "t", "i", "f", "i", "c", " ", "N", "a", "m", "e", ",", "S", "u", "b", "s", "p", "e", "c", "i", "e", "s", ",", "L", "o", "c", "a", "t", "i", "o", "n", ",", "S", "/", "P", ",", "D", "a", "t", "e">>

Cell(text) == [text |-> text, quoted |-> FALSE]
Quoted(text) == [text |-> text, quoted |-> TRUE]

\* The nine columns of an export row.
Row9(common, sci, location, date) ==
    << Cell(<<"1">>), Cell(<<"a", "m", "e", "r", "o", "b">>), Cell(<<"2", "7">>), common, sci, Cell(<<>>),
       location, Cell(<<"U", "S", "-", "N", "Y">>), date >>

RobinRow ==
    [cells |-> Row9(Cell(<<"R", "o", "b", "i", "n">>), Cell(<<"T", "u", "r", "d", "u", "s">>), Quoted(<<"P", "a", "r", "k", ",", " ", "N", "Y">>),
                    Cell(<<"1", "5", " ", "J", "a", "n", " ", "2", "0", "2", "4">>)), cr |-> FALSE]

CrowRow ==
    [cells |-> Row9(Cell(<<"C", "r", "o", "w">>), Cell(<<"C", "o", "r", "v", "u", "s">>), Cell(<<"H", "i", "l", "l">>),
                    Quoted(<<"2", " ", "M", "a", "r", " ", "2", "0", "2", "4">>)), cr |-> FALSE]

RowSet ==
    { RobinRow, CrowRow,
      [cells |-> Row9(Quoted(<<"W", "r", "e", "n">>), Cell(<<" ", "T", "r", "o", "g", "l", "o", "d", "y", "t", "e", "s">>), Cell(<<"P", "o", "n", "d", " ">>),
                      Cell(<<"1", "5", " ", "J", "a", "n", " ", "2", "0", "2", "4">>)) \o <<Cell(<<"L", "1">>)>>, cr |-> TRUE],
      [cells |-> Row9(Cell(<<"L", "a", "r", "k">>), Cell(<<"A", "l", "a", "u", "d", "a">>), Cell(<<"M", "o", "o", "r">>),
                      Cell(<<"3", "1", " ", "F", "e", "b", " ", "2", "0", "2", "4">>)), cr |-> FALSE],
      [cells |-> Row9(Cell(<<"K", "i", "t", "e">>), Cell(<<"M", "i", "l", "v", "u", "s">>), Cell(<<"W", "o", "o", "d">>),
                      Cell(<<"a", "b", " ", "J", "a", "n", " ", "c", "d">>)), cr |-> FALSE],
      [cells |-> Row9(Cell(<<"R", "o", "o", "k">>), Cell(<<"C", "o", "r", "v", "u", "s">>), Cell(<<"F", "a", "r", "m">>),
                      Cell(<<"5", " ", "c", "o", "n", "s", "t", "r", "u", "c", "t", "o", "r", " ", "2", "0", "2", "4">>)), cr |-> FALSE],
      [cells |-> Row9(Cell(<<"T", "e", "a", "l">>), Cell(<<"A", "n", "a", "s">>), Cell(<<"F", "e", "n">>),
                      Cell(<<"5", " ", "F", "o", "o", " ", "2", "0", "2", "4">>)), cr |-> FALSE],
      [cells |-> << Cell(<<"1">>), Cell(<<"a", "m", "e", "r", "o", "b">>), Cell(<<"2", "7">>), Cell(<<"D", "o", "v", "e">>),
                    Cell(<<"C", "o", "l", "u", "m", "b", "a">>), Cell(<<>>), Cell(<<"U", "S", "-", "N", "Y">>),
                    Cell(<<"5", " ", "J", "a", "n", " ", "2", "0", "2", "4">>) >>, cr |-> FALSE],
      [cells |-> << Cell(<<" ", " ">>) >>, cr |-> FALSE] }

RenderCell(c) == IF c.quoted THEN <<"\"">> \o c.text \o <<"\"">> ELSE c.text

RECURSIVE JoinCells(_)
JoinCells(cs) ==
    IF cs = <<>> THEN <<>>
    ELSE IF Len(cs) = 1 THEN RenderCell(cs[1])
    ELSE RenderCell(cs[1]) \o <<",">> \o JoinCells(Tail(cs))

RenderRow(r) == JoinCells(r.cells) \o (IF r.cr THEN <<"\r">> ELSE <<>>)

RECURSIVE RenderRows(_)
RenderRows(rs) ==
    IF rs = <<>> THEN <<>>
    ELSE <<"\n">> \o RenderRow(Head(rs)) \o RenderRows(Tail(rs))

\* The text of an export: the header line, the rows, each on a line of its
\* own, and a final line break or none.
RenderText(rs, finalBreak) ==
    Header \o RenderRows(rs) \o (IF finalBreak THEN <<"\n">> ELSE <<>>)

CsvInit ==
    /\ cpc = "start"
    /\ rows \in SeqsUpTo(RowSet, MaxRows)
    /\ \/ csvContent = <<>> /\ rows = <<>>
       \/ \E finalBreak \in BOOLEAN : csvContent = RenderText(rows, finalBreak)
    /\ lines = <<>> /\ i = 0 /\ observations = <<>> /\ result = <<>>
    /\ DateIdle /\ TokIdle /\ RunIdle

\* const lines = csvContent.split('\n'); const observations = []; i = 1
SplitLines ==
    /\ cpc = "start"
    /\ lines' = Split(csvContent, "\n")
    /\ observations' = <<>>
    /\ i' = 1
    /\ cpc' = "loop"
    /\ UNCHANGED <<rows, csvContent, result, dateVars, tokVars, runVars>>

\* one iteration of for (let i = 1; i < lines.length; i++)
LoopStep ==
    /\ cpc = "loop"
    /\ i < Len(lines)
    /\ observations' = ParseLine(observations, lines[i + 1])
    /\ i' = i + 1
    /\ UNCHANGED <<cpc, rows, csvContent, lines, result, dateVars, tokVars, runVars>>

\* return observations.sort(...)
SortReturn ==
    /\ cpc = "loop"
    /\ i >= Len(lines)
    /\ \E sorted \in SortOutcomes(observations) : result' = sorted
    /\ cpc' = "returned"
    /\ UNCHANGED <<rows, csvContent, lines, i, observations, dateVars, tokVars, runVars>>

CsvNext == SplitLines \/ LoopStep \/ SortReturn

SpecCSV == CsvInit /\ [][CsvNext]_vars

(***************************************************************************)
(* Spec: one run of the script, from the check of the credentials to the   *)
(* end of the process.  Every call that can throw or reject either         *)
(* succeeds or fails.                                                      *)
(***************************************************************************)
MaxClock == 2

\* The profiles a data.json may hold.
PriorProfiles ==
    << JObj(<<>>),
       JObj([name |-> JStr(<<"A", "n", "n">>), location |-> JStr(<<"N", "Y">>)]),
       JObj([name |-> JStr(<<"A", "n", "n">>), lastSync |-> JStr(ToISOString(0))]),
       JNull, JBool(FALSE), JBool(TRUE), JNum(0), JNum(7),
       JStr(<<>>), JStr(<<"a", "b">>), JArr(<<JStr(<<"x">>)>>) >>

\* The states data.json may be in when the run starts.
PriorFiles ==
    << Absent, Unreadable, NotJson,
       JsonFile(JNull), JsonFile(JNum(5)), JsonFile(JStr(<<"p", "r", "o", "f", "i", "l", "e">>)),
       JsonFile(JArr(<<>>)),
       JsonFile(JObj([observations |-> JArr(<<>>)])) >>
    \o [k \in 1..Len(PriorProfiles) |->
          JsonFile(JObj([profile |-> PriorProfiles[k],
                         observations |-> JArr(<<>>)]))]

\* The texts the download may deliver.
DownloadTexts ==
    { <<>>, RenderText(<<>>, TRUE), RenderText(<<CrowRow, RobinRow>>, TRUE) }

NoFile == [kind |-> "absent", text |-> <<>>]

Init ==
    /\ pc = "top"
    /\ credentials \in BOOLEAN
    /\ clock \in 1..MaxClock
    /\ \E k \in 1..Len(PriorFiles) : dataJson = PriorFiles[k]
    /\ dataBefore = dataJson
    /\ tempFile = NoFile /\ csvText = <<>> /\ parsed = <<>>
    /\ existingProfile = JUndefined
    /\ evaluate = "none" /\ thrown = FALSE
    /\ exitCode = Running /\ failed = "none"
    /\ attempts = [s \in StepNames |-> 0]
    /\ writes = 0
    /\ DateIdle /\ TokIdle /\ CsvIdle

Started(step) == attempts' = [attempts EXCEPT ![step] = @ + 1]

\* process.exit(code), or the end of the process by other means.
Exit(code) == pc' = "exited" /\ exitCode' = code

\* if (!EBIRD_USERNAME || !EBIRD_PASSWORD) { ...; process.exit(1); }
CheckCredentials ==
    /\ pc = "top"
    /\ IF credentials
       THEN pc' = "launch" /\ UNCHANGED <<exitCode, failed>>
       ELSE Exit(1) /\ failed' = "credentials"
    /\ UNCHANGED <<credentials, clock, dataJson, tempFile, csvText, parsed,
                   existingProfile, evaluate, thrown, attempts, writes,
                   dataBefore, dateVars, tokVars, csvVars>>

\* chromium.launch, browser.newContext, context.newPage: outside the try, so
\* a rejection is the rejection of fetchEbirdLifeList(), which nothing
\* handles: Node ends the process with status 1.
Launch ==
    /\ pc = "launch"
    /\ Started("launch")
    /\ \/ pc' = "goto" /\ UNCHANGED <<exitCode, failed>>
       \/ Exit(1) /\ failed' = "launch"
    /\ UNCHANGED <<credentials, clock, dataJson, tempFile, csvText, parsed,
                   existingProfile, evaluate, thrown, writes, dataBefore,
                   dateVars, tokVars, csvVars>>

\* The awaited browser calls of the try block, in order; after page.goto the
\* login steps run only if the URL asks for a login.
BrowserSteps ==
    <<"goto", "waitForSelector", "fillUserName", "fillPassword", "click",
      "waitForURL">>

\* One awaited browser call succeeds or rejects.
BrowserStep ==
    /\ \E k \in 1..Len(BrowserSteps) :
          /\ pc = BrowserSteps[k]
          /\ Started(pc)
          /\ \/ /\ pc' = IF k = Len(BrowserSteps) THEN "download"
                          ELSE BrowserSteps[k + 1]
                /\ UNCHANGED failed
             \/ /\ k = 1
                /\ pc' = "download"
                /\ UNCHANGED failed
             \/ /\ pc' = "catch"
                /\ failed' = pc
    /\ UNCHANGED <<credentials, clock, dataJson, tempFile, csvText, parsed,
                   existingProfile, evaluate, thrown, exitCode, writes,
                   dataBefore, dateVars, tokVars, csvVars>>

\* page.waitForEvent('download'), page.evaluate(...) not awaited, then
\* await downloadPromise.
Download ==
    /\ pc = "download"
    /\ Started("download")
    /\ evaluate' = "pending"
    /\ \/ pc' = "saveAs" /\ UNCHANGED failed
       \/ pc' = "catch" /\ failed' = "download"
    /\ UNCHANGED <<credentials, clock, dataJson, tempFile, csvText, parsed,
                   existingProfile, thrown, exitCode, writes, dataBefore,
                   dateVars, tokVars, csvVars>>

\* await download.saveAs(tempPath)
SaveAs ==
    /\ pc = "saveAs"
    /\ Started("saveAs")
    /\ \/ /\ \E text \in DownloadTexts : tempFile' = [kind |-> "text", text |-> text]
          /\ pc' = "readTemp"
          /\ UNCHANGED failed
       \/ pc' = "catch" /\ failed' = "saveAs" /\ UNCHANGED tempFile
    /\ UNCHANGED <<credentials, clock, dataJson, csvText, parsed,
                   existingProfile, evaluate, thrown, exitCode, writes,
                   dataBefore, dateVars, tokVars, csvVars>>

\* const csvContent = fs.readFileSync(tempPath, 'utf-8')
ReadTemp ==
    /\ pc = "readTemp"
    /\ Started("readTemp")
    /\ \/ csvText' = tempFile.text /\ pc' = "parse" /\ UNCHANGED failed
       \/ pc' = "catch" /\ failed' = "readTemp" /\ UNCHANGED csvText
    /\ UNCHANGED <<credentials, clock, dataJson, tempFile, parsed,
                   existingProfile, evaluate, thrown, exitCode, writes,
                   dataBefore, dateVars, tokVars, csvVars>>

\* const observations = parseCSV(csvContent)
Parse ==
    /\ pc = "parse"
    /\ Started("parse")
    /\ \E outcome \in ParseCSVOutcomes(csvText) : parsed' = outcome
    /\ pc' = "unlink"
    /\ UNCHANGED <<credentials, clock, dataJson, tempFile, csvText,
                   existingProfile, evaluate, thrown, exitCode, failed, writes,
                   dataBefore, dateVars, tokVars, csvVars>>

\* fs.unlinkSync(tempPath)
Unlink ==
    /\ pc = "unlink"
    /\ Started("unlink")
    /\ \/ tempFile' = NoFile /\ pc' = "getExistingProfile" /\ UNCHANGED failed
       \/ pc' = "catch" /\ failed' = "unlink" /\ UNCHANGED tempFile
    /\ UNCHANGED <<credentials, clock, dataJson, csvText, parsed,
                   existingProfile, evaluate, thrown, exitCode, writes,
                   dataBefore, dateVars, tokVars, csvVars>>

\* const existingProfile = getExistingProfile(): it catches what it throws.
ReadProfile ==
    /\ pc = "getExistingProfile"
    /\ Started("getExistingProfile")
    /\ existingProfile' = getExistingProfile(dataJson)
    /\ pc' = "write"
    /\ UNCHANGED <<credentials, clock, dataJson, tempFile, csvText, parsed,
                   evaluate, thrown, exitCode, failed, writes, dataBefore,
                   dateVars, tokVars, csvVars>>

\* The catch block ending the process with status 0.
CatchExitsZero ==
    /\ pc = "catch"
    /\ Started("screenshot")
    /\ \/ Exit(0) /\ UNCHANGED thrown
       \/ pc' = "finally" /\ thrown' = TRUE /\ UNCHANGED exitCode
    /\ UNCHANGED <<credentials, clock, dataJson, tempFile, csvText, parsed,
                   existingProfile, evaluate, failed, writes, dataBefore,
                   dateVars, tokVars, csvVars>>

\* catch (error): await page.screenshot(...), then process.exit(1), which
\* ends the process before the finally block; a rejected screenshot throws
\* out of the catch block instead, through the finally block.
Catch ==
    /\ pc = "catch"
    /\ Started("screenshot")
    /\ \/ Exit(1) /\ UNCHANGED thrown
       \/ pc' = "finally" /\ thrown' = TRUE /\ UNCHANGED exitCode
    /\ UNCHANGED <<credentials, clock, dataJson, tempFile, csvText, parsed,
                   existingProfile, evaluate, failed, writes, dataBefore,
                   dateVars, tokVars, csvVars>>

\* fs.writeFileSync(outputPath, JSON.stringify(dataJson, null, 2)): the file
\* is opened for writing, which empties it, and the text is written.  The
\* call throws before the file is opened, or after, with the text cut short.
Write ==
    /\ pc = "write"
    /\ Started("write")
    /\ \E later \in {clock, clock + 1} :
          \/ /\ dataJson' = JsonFile(Export(existingProfile, parsed, clock, later))
             /\ writes' = writes + 1
             /\ pc' = "finally"
             /\ UNCHANGED failed
          \/ /\ pc' = "catch"
             /\ failed' = "write"
             /\ UNCHANGED <<dataJson, writes>>
          \/ /\ dataJson' = NotJson
             /\ writes' = writes + 1
             /\ pc' = "catch"
             /\ failed' = "write"
    /\ UNCHANGED <<credentials, clock, tempFile, csvText, parsed,
                   existingProfile, evaluate, thrown, exitCode, dataBefore,
                   dateVars, tokVars, csvVars>>

\* finally { await browser.close() }, and the end of the process: status 0
\* if fetchEbirdLifeList() is fulfilled and no promise is left to reject;
\* status 1 if it is rejected, or if closing the browser rejects the pending
\* page.evaluate, since nothing handles either rejection.
Finally ==
    /\ pc = "finally"
    /\ Started("close")
    /\ \/ /\ ~thrown /\ evaluate # "pending"
          /\ Exit(0)
          /\ UNCHANGED <<failed, evaluate>>
       \/ /\ thrown
          /\ Exit(1)
          /\ UNCHANGED <<failed, evaluate>>
       \/ /\ ~thrown /\ evaluate = "pending"
          /\ Exit(1)
          /\ evaluate' = "rejected"
          /\ failed' = "evaluate"
       \/ /\ Exit(1)
          /\ failed' = (IF failed = "none" THEN "close" ELSE failed)
          /\ UNCHANGED evaluate
    /\ UNCHANGED <<credentials, clock, dataJson, tempFile, csvText, parsed,
                   existingProfile, thrown, writes, dataBefore,
                   dateVars, tokVars, csvVars>>

\* The promise of page.evaluate is fulfilled.
EvaluateResolves ==
    /\ evaluate = "pending"
    /\ pc # "exited"
    /\ evaluate' = "resolved"
    /\ UNCHANGED <<pc, credentials, clock, dataJson, tempFile, csvText, parsed,
                   existingProfile, thrown, exitCode, failed, attempts, writes,
                   dataBefore, dateVars, tokVars, csvVars>>

\* The promise of page.evaluate is rejected while the function waits in an
\* await: nothing handles the rejection, and Node ends the process with
\* status 1.
EvaluateRejects ==
    /\ evaluate = "pending"
    /\ pc \in {"saveAs", "catch", "finally"}
    /\ evaluate' = "rejected"
    /\ Exit(1)
    /\ failed' = (IF failed = "none" THEN "evaluate" ELSE failed)
    /\ UNCHANGED <<credentials, clock, dataJson, tempFile, csvText, parsed,
                   existingProfile, thrown, attempts, writes, dataBefore,
                   dateVars, tokVars, csvVars>>

Next ==
    \/ CheckCredentials
    \/ Launch
    \/ BrowserStep
    \/ Download
    \/ SaveAs
    \/ ReadTemp
    \/ Parse
    \/ Unlink
    \/ ReadProfile
    \/ Write
    \/ Catch
    \/ Finally
    \/ EvaluateResolves
    \/ EvaluateRejects

Spec == Init /\ [][Next]_vars

\* The run in which the catch block and the finally block, once entered, are
\* carried out: page.screenshot() and browser.close() settle, and the event
\* loop goes on to the code that awaits them.
FairSpec == Spec /\ WF_vars(Catch) /\ WF_vars(Finally)

(***************************************************************************)
(* Properties                                                              *)
(***************************************************************************)
\* The parts of a string separated by runs of white space.
RECURSIVE WsPartsAcc(_, _)
WsPartsAcc(s, cur) ==
    IF s = <<>> THEN (IF cur = <<>> THEN <<>> ELSE <<cur>>)
    ELSE IF Head(s) \in WhiteSpace
    THEN (IF cur = <<>> THEN <<>> ELSE <<cur>>) \o WsPartsAcc(Tail(s), <<>>)
    ELSE WsPartsAcc(Tail(s), Append(cur, Head(s)))

WsParts(s) == WsPartsAcc(s, <<>>)

TwelveMonths == { MonthNames[m] : m \in 1..12 }

\* The date strings for which C3 requires a failure.
MustFail(s) ==
    \/ Len(WsParts(s)) # 3
    \/ /\ Len(WsParts(s)) = 3
       /\ WsParts(s)[2] \notin TwelveMonths

\* C3: parseEbirdDate returns null for every date string that does not split
\* into exactly 3 white-space separated parts, and for every date string whose
\* middle token is not one of the twelve abbreviations Jan .. Dec.
C3_NullOnBadDate ==
    (dpc = "done" /\ MustFail(dateStr)) => dateRes.null

QuotesBefore(s, p) == Cardinality({q \in 1..(p - 1) : s[q] = "\""})

\* The positions of the commas of s that stand outside quotes.
OutsideCommas(s) ==
    {p \in 1..Len(s) : s[p] = "," /\ QuotesBefore(s, p) % 2 = 0}

\* The position of the k-th comma outside quotes; 0 before the first field and
\* Len(s) + 1 after the last.
FieldBound(s, k) ==
    IF k = 0 THEN 0
    ELSE IF k > Cardinality(OutsideCommas(s)) THEN Len(s) + 1
    ELSE CHOOSE p \in OutsideCommas(s) :
            Cardinality({q \in OutsideCommas(s) : q < p}) = k - 1

NotQuote(c) == c # "\""

\* The k-th field of s: the text between two commas outside quotes, its quote
\* characters dropped, trimmed.
FieldOf(s, k) ==
    Trim(SelectSeq(SubSeq(s, FieldBound(s, k - 1) + 1, FieldBound(s, k) - 1),
                   NotQuote))

\* C10: the tokenizer splits a line at the commas outside quotes only: each
\* quote toggles the inside-quotes mode and is not copied, a line with k commas
\* outside quotes yields k + 1 fields, each the text between two such commas
\* with its commas kept, and A,"B, C",D yields A / B, C / D.
C10_QuoteAwareTokenizer ==
    /\ tpc = "scan" => inQuotes = (QuotesBefore(line, j + 1) % 2 = 1)
    /\ tpc = "done" =>
         /\ Len(columns) = Cardinality(OutsideCommas(line)) + 1
         /\ \A k \in 1..Len(columns) : columns[k] = FieldOf(line, k)
         /\ line = ExampleLine => columns = << <<"A">>, <<"B", ",", " ", "C">>, <<"D">> >>

\* Printable ASCII characters in the order of their code units: 32 (space)
\* to 91, 93 to 95, and 97 to 126.
AsciiFrom32 ==
    <<" ", "!", "\"", "#", "$", "%", "&", "'", "(", ")", "*", "+", ",", "-", ".", "/", "0", "1", "2", "3", "4", "5", "6", "7", "8", "9", ":", ";", "<", "=", ">", "?", "@", "A", "B", "C", "D", "E", "F", "G", "H", "I", "J", "K", "L", "M", "N", "O", "P", "Q", "R", "S", "T", "U", "V", "W", "X", "Y", "Z", "[">>

AsciiFrom93 == <<"]", "^", "_">>

AsciiFrom97 == <<"a", "b", "c", "d", "e", "f", "g", "h", "i", "j", "k", "l", "m", "n", "o", "p", "q", "r", "s", "t", "u", "v", "w", "x", "y", "z", "{", "|", "}", "~">>

IndexIn(s, c) == CHOOSE k \in 1..Len(s) : s[k] = c

CharCode(c) ==
    IF c = "\t" THEN 9 ELSE IF c = "\n" THEN 10 ELSE IF c = "\r" THEN 13
    ELSE IF c \in Elements(AsciiFrom32) THEN 31 + IndexIn(AsciiFrom32, c)
    ELSE IF c \in Elements(AsciiFrom93) THEN 92 + IndexIn(AsciiFrom93, c)
    ELSE 96 + IndexIn(AsciiFrom97, c)

\* a <= b in the lexical order of strings.
LexLeq(a, b) ==
    \/ /\ Len(a) <= Len(b)
       /\ \A k \in 1..Len(a) : a[k] = b[k]
    \/ \E k \in 1..Len(a) :
          /\ k <= Len(b)
          /\ \A q \in 1..(k - 1) : a[q] = b[q]
          /\ CharCode(a[k]) < CharCode(b[k])

WithDate(s, d) == SelectSeq(s, LAMBDA o : o.date = d)

\* C1: whatever the text, the observations parseCSV returns are in ascending
\* lexical order of their date strings, and observations of equal date keep
\* the order of their rows.
C1_SortedByDateString ==
    cpc = "returned" =>
        /\ \A k \in 1..(Len(result) - 1) :
              LexLeq(result[k].date, result[k + 1].date)
        /\ \A o \in Elements(observations) :
              WithDate(result, o.date) = WithDate(observations, o.date)

\* A string of the literal form D Mon YYYY: a day of one or two digits, one of
\* the twelve abbreviations, a year of four digits, one space between them.
IsDMonYYYY(s) ==
    LET p == WsParts(s)
    IN  /\ Len(p) = 3
        /\ s = p[1] \o <<" ">> \o p[2] \o <<" ">> \o p[3]
        /\ Len(p[1]) \in 1..2 /\ AllDigits(p[1])
        /\ p[2] \in TwelveMonths
        /\ Len(p[3]) = 4 /\ AllDigits(p[3])

\* A string of the shape YYYY-MM-DD with a month 01 .. 12.
IsIsoShape(s) ==
    /\ Len(s) = 10
    /\ s[5] = "-" /\ s[8] = "-"
    /\ \A k \in {1, 2, 3, 4, 6, 7, 9, 10} : IsDigit(s[k])
    /\ ToNumber(SubSeq(s, 6, 7)) \in 1..12

\* What the tokenizer is to make of a cell: its text, trimmed.
CellValue(c) == Trim(c.text)

HasDateOfForm(r) == Len(r.cells) >= 9 /\ IsDMonYYYY(CellValue(r.cells[9]))

\* C2: every observation parseCSV returns has a date of the shape YYYY-MM-DD,
\* and a row whose ninth column is not of the form D Mon YYYY yields none: there
\* are no more observations than rows of that form.
C2_DatesAreIso ==
    cpc = "returned" =>
        /\ \A o \in Elements(result) : IsIsoShape(o.date)
        /\ Len(result) <= Cardinality({k \in 1..Len(rows) : HasDateOfForm(rows[k])})

TwoDigits(n) == <<Digits[(n \div 10) + 1], Digits[(n % 10) + 1]>>

\* YYYY-MM-DD for a string of the form D Mon YYYY.
IsoOf(s) ==
    LET p == WsParts(s)
        m == CHOOSE m \in 1..12 : MonthNames[m] = p[2]
    IN  p[3] \o <<"-">> \o TwoDigits(m) \o <<"-">>
        \o (IF Len(p[1]) = 1 THEN <<"0">> \o p[1] ELSE p[1])

\* The observation a well-formed row stands for.
ObservationOf(r) ==
    [date |-> IsoOf(CellValue(r.cells[9])),
     sciName |-> CellValue(r.cells[5]),
     common |-> CellValue(r.cells[4]),
     location |-> CellValue(r.cells[7]),
     region |-> CellValue(r.cells[8])]

Count(s, x) == Cardinality({k \in 1..Len(s) : s[k] = x})

SameMultiset(a, b) ==
    /\ Len(a) = Len(b)
    /\ \A x \in Elements(a) \cup Elements(b) : Count(a, x) = Count(b, x)

AllWellFormed == \A k \in 1..Len(rows) : HasDateOfForm(rows[k])

\* C8: for a header line and N well-formed rows (N = 0 and the empty text
\* included) parseCSV returns N observations: as a multiset, the rows mapped to
\* date (YYYY-MM-DD, the day zero-padded), common (column 3), sciName
\* (column 4), location (column 6) and region (column 7).  The loop visits
\* every line after the first and stops at no row.
C8_WellFormedRowsAllImported ==
    AllWellFormed =>
        /\ cpc = "loop" =>
             /\ i <= Len(lines)
             /\ Len(observations) = (IF i - 1 <= Len(rows) THEN i - 1 ELSE Len(rows))
        /\ cpc = "returned" =>
             /\ Len(result) = Len(rows)
             /\ SameMultiset(result,
                             [k \in 1..Len(rows) |-> ObservationOf(rows[k])])

\* Two or more well-formed rows were parsed, and the sort moved them.
C8_Witness ==
    /\ cpc = "returned"
    /\ AllWellFormed
    /\ Len(rows) >= 2
    /\ Len(result) = Len(rows)
    /\ result[1] # ObservationOf(rows[1])
    /\ \E k \in 1..Len(rows) : rows[k].cells[7].quoted

\* A malformed row: fewer than 9 columns, or a date that does not split into
\* 3 parts or whose month is not one of the twelve.
Malformed(r) == Len(r.cells) < 9 \/ MustFail(CellValue(r.cells[9]))

NotMalformed(r) == ~Malformed(r)

\* C9: malformed rows are dropped and nothing else changes: parseCSV returns
\* what it returns for the text without them.
C9_MalformedRowsDropped ==
    cpc = "returned" =>
        result \in ParseCSVOutcomes(RenderText(SelectSeq(rows, NotMalformed), FALSE))

\* The stages C4 names: navigation, login, download, the read of the temporary
\* file, parsing and the final write.
NamedStages ==
    {"goto", "waitForSelector", "fillUserName", "fillPassword", "click",
     "waitForURL", "download", "saveAs", "readTemp", "parse", "write"}

\* C4: data.json stays as the run found it until the final write succeeds: a
\* run that failed at a named stage leaves it as it was; and a run writes it at
\* most once, after parseCSV has returned.
C4_DataJsonUntouchedOnFailure ==
    /\ (pc = "exited" /\ failed \in NamedStages) => dataJson = dataBefore
    /\ writes = 0 => dataJson = dataBefore
    /\ writes <= 1
    /\ writes = 1 => attempts["parse"] = 1

\* The write of data.json succeeded.
WriteSucceeded == writes = 1 /\ failed # "write"

\* The run found a data.json holding an object whose profile is an object.
PriorProfileIsObject ==
    /\ dataBefore.kind = "json"
    /\ dataBefore.value.t = "object"
    /\ "profile" \in DOMAIN dataBefore.value.v
    /\ dataBefore.value.v["profile"].t = "object"

WrittenProfile == dataJson.value.v["profile"]

\* C5: after a successful import the profile written holds every field of the
\* profile found, with its value, except lastSync, which holds the current time,
\* and no other field.
C5_ProfilePreserved ==
    (WriteSucceeded /\ PriorProfileIsObject) =>
        LET old == dataBefore.value.v["profile"].v
            new == WrittenProfile.v
        IN  /\ WrittenProfile.t = "object"
            /\ DOMAIN new = DOMAIN old \cup {"lastSync"}
            /\ \A key \in DOMAIN old \ {"lastSync"} : new[key] = old[key]
            /\ new["lastSync"] = JStr(ToISOString(clock))

\* An import over a profile holding a name and an older lastSync has ended
\* with status 0.
C5_Witness ==
    /\ pc = "exited" /\ exitCode = 0
    /\ WriteSucceeded /\ PriorProfileIsObject
    /\ {"name", "lastSync"} \subseteq DOMAIN dataBefore.value.v["profile"].v
    /\ WrittenProfile.v["lastSync"] # dataBefore.value.v["profile"].v["lastSync"]

\* C6: when data.json is missing, unreadable, no JSON, or JSON without a
\* profile object, getExistingProfile contributes no field (and throws
\* nothing), and the profile written holds lastSync only.
C6_EmptyProfileWhenUnusable ==
    ~PriorProfileIsObject =>
        /\ existingProfile.t # "undefined" => DOMAIN Spread(existingProfile) = {}
        /\ WriteSucceeded => DOMAIN WrittenProfile.v = {"lastSync"}

\* C7: a run in which a step failed ends, with a status other than 0; no step
\* is started twice, and nothing of the pipeline runs after a failure.
C7_FailureExitsNonZero ==
    /\ [](/\ (pc = "exited") = (exitCode # Running)
          /\ (pc = "exited" /\ failed # "none") => exitCode > 0
          /\ \A s \in StepNames : attempts[s] <= 1
          /\ (failed # "none") => pc \in {"catch", "finally", "exited"})
    /\ (failed # "none") ~> (pc = "exited" /\ exitCode > 0)

\* The write failed, the screenshot of the catch block failed as well, and the
\* process has ended.
C7_Witness ==
    /\ pc = "exited"
    /\ failed = "write"
    /\ thrown
    /\ attempts["screenshot"] = 1 /\ attempts["close"] = 1

\* A line with a comma inside quotes has been tokenized to the end.
C10_Witness ==
    /\ tpc = "done"
    /\ \E p \in 1..Len(line) : line[p] = "," /\ QuotesBefore(line, p) % 2 = 1
    /\ \E k \in 1..Len(columns) : \E q \in 1..Len(columns[k]) : columns[k][q] = ","

====
